---- MODULE Spec2Model ----
(***************************************************************************)
(* The job-status poller of the admin dashboard: class ImportManager of    *)
(* src/unnamed/part_000 (loadJobs, optimizeRefreshInterval, cleanup and    *)
(* the handlers that call them), as a state machine of the browser's event *)
(* loop.  One step is one task of the event loop together with the         *)
(* microtasks it queues: a handler runs from its call, or from the         *)
(* settling of the promise it awaits, to its next await.                   *)
(***************************************************************************)
EXTENDS Integers, Sequences, FiniteSets, TLC

VARIABLES
    refreshInterval,     \* this.refreshInterval: NULL or the id of a timer
    liveTimers,          \* the intervals set and not cleared: {[id, period]}
    accordionRecalcTimeout, \* TRUE iff the 100 ms accordion timeout is armed
    _cleanupTasks,       \* this._cleanupTasks: the number of closures it holds
    lastJobsHash,        \* this.lastJobsHash
    hasActiveJobs,       \* this.hasActiveJobs
    _isRefreshing,        \* this._isRefreshing
    signalAborted,       \* this._abortController.signal.aborted
    inflight,            \* loadJobs invocations suspended at an await, in issue order
    refreshBtnDisabled,  \* refreshBtn.disabled, set by setRefreshLoading
    stats,               \* text of completedCount / runningCount / queuedCount
    databaseCount,       \* text of databaseCount
    jobsView,            \* content of #jobsListContent
    dbStatsInflight,     \* loadDatabaseStats invocations awaiting /stats/database
    dbCollInflight,      \* loadDatabaseStats invocations awaiting /collection/info
    submitPending,       \* handleSubmit is awaiting startImport
    calls,               \* history: the calls made by the last step of loadJobs,
                         \* or the method called from outside the class
    lastPoll,            \* history: how the last finished loadJobs invocation ended
    clearRuns,           \* clearCompletedJobs invocations: awaiting DELETE, or
                         \* with their timeouts pending
    shortcodes,          \* this.shortcodes: the shortcodes of the loaded list
    shortcodesRendered,  \* the shortcodes with a checkbox in #shortcodesList
    selectedShortcodes,  \* this.selectedShortcodes
    shortcodesInflight,  \* loadShortcodes invocations awaiting /shortcodes/list
    reimportInflight     \* the arrays posted to /shortcodes/reimport, unanswered

vars == <<refreshInterval, liveTimers, accordionRecalcTimeout, _cleanupTasks,
          lastJobsHash,
          hasActiveJobs, _isRefreshing, signalAborted, inflight,
          refreshBtnDisabled, stats, databaseCount, jobsView, dbStatsInflight,
          dbCollInflight, submitPending, calls, lastPoll, clearRuns,
          shortcodes, shortcodesRendered, selectedShortcodes,
          shortcodesInflight, reimportInflight>>

(***************************************************************************)
(* Bounds of the model.                                                    *)
(***************************************************************************)
MaxJobs == 2
MaxInflight == 2
MaxDbInflight == 2
\* the closures of _cleanupTasks are all alike; their number is kept up to
\* MaxCleanupTasks, which stands for "MaxCleanupTasks or more"
MaxCleanupTasks == 1
MaxClearRuns == 1
MaxShortcodeLoads == 1
MaxReimports == 1

(***************************************************************************)
(* Program constants.                                                      *)
(***************************************************************************)
NULL == 0
FastPeriod == 1500
SlowPeriod == 10000
Unset == 0 - 1

(***************************************************************************)
(* Jobs as the status endpoint returns them.  stage stands for             *)
(* progress?.stage ("undefined" when the job has no progress record);      *)
(* progress_percent is a JSON number, kept here in tenths of a percent     *)
(* (504 is 50.4).  success stands for the fields renderJob shows that the  *)
(* fingerprint leaves out: progress.success, failed and total, the         *)
(* per-URL records, result and detail.                                     *)
(***************************************************************************)
MkJob(id, st, pp, stg) ==
    [job_id |-> id, status |-> st, progress_percent |-> pp, stage |-> stg,
     success |-> 0]

Jobs ==
    { MkJob("A", "queued", 0, "undefined"),
      MkJob("A", "running", 500, "download"),
      MkJob("A", "running", 504, "download"),
      MkJob("A", "running", 500, "stt"),
      MkJob("A", "completed", 1000, "done"),
      MkJob("A", "failed", 500, "error"),
      MkJob("B", "running", 500, "download") }

\* a job whose job_id is missing: renderJob throws on job_id.substring
NoId == "undefined"

MalformedJobs == { MkJob(NoId, "running", 500, "download") }

DistinctIds(jl) ==
    \A i, j \in 1..Len(jl) : i # j => jl[i].job_id # jl[j].job_id

SeqsUpTo(S, n) == UNION { [1..k -> S] : k \in 0..n }

\* the job arrays of a 200 response that follow the data model
JobLists == { jl \in SeqsUpTo(Jobs, MaxJobs) : DistinctIds(jl) }

\* job arrays that hold a job without job_id, and a completed job
MalformedLists ==
    { <<j, MkJob("A", "completed", 1000, "done")>> : j \in MalformedJobs }

\* a job whose status is none of running, queued, completed, failed
UnknownStatusJob == MkJob("A", "paused", 500, "download")

\* a running job of which one URL has been processed
ProgressedJob == [MkJob("A", "running", 500, "download") EXCEPT !.success = 1]

\* job arrays with a job of unknown status, and one that differs from an
\* array of JobLists only in a field the fingerprint leaves out
PayloadLists ==
    { <<UnknownStatusJob>>,
      <<UnknownStatusJob, MkJob("B", "running", 500, "download")>>,
      <<ProgressedJob>> }

(***************************************************************************)
(* The fingerprint of loadJobs: JSON.stringify of the projection of each   *)
(* job on (job_id, status, progress_percent, progress?.stage).  A string   *)
(* that starts with "[" is neither null nor the string 'empty', so the     *)
(* three kinds of value are kept apart by the field kind.                  *)
(***************************************************************************)
\* Math.round of a number of tenths, in whole percent
RoundPercent(pp) == (pp + 5) \div 10

RoundedProjection(j) ==
    [id |-> j.job_id, status |-> j.status,
     progress |-> RoundPercent(j.progress_percent), stage |-> j.stage]

Projection(j) ==
    [id |-> j.job_id, status |-> j.status,
     progress |-> j.progress_percent, stage |-> j.stage]

JobsHash(jobs) ==
    [kind |-> "json", proj |-> [i \in 1..Len(jobs) |-> Projection(jobs[i])]]

NullHash == [kind |-> "null", proj |-> <<>>]
EmptyHash == [kind |-> "empty", proj |-> <<>>]

IsNotFinished(j) == j.status \notin {"completed", "failed"}

\* j.status === 'running' || j.status === 'queued'
IsActive(j) == j.status = "running" \/ j.status = "queued"

\* activeJobs.length > 0
ActiveJobs(jobs) == \E i \in 1..Len(jobs) : IsActive(jobs[i])

CountStatus(jobs, st) ==
    Cardinality({ i \in 1..Len(jobs) : jobs[i].status = st })

ZeroStats == [completed |-> 0, running |-> 0, queued |-> 0]
UnsetStats == [completed |-> Unset, running |-> Unset, queued |-> Unset]

\* the stats object of updateJobStats
JobStats(jobs) ==
    [completed |-> CountStatus(jobs, "completed"),
     running |-> CountStatus(jobs, "running"),
     queued |-> CountStatus(jobs, "queued")]

HasCompleted(jobs) == \E i \in 1..Len(jobs) : jobs[i].status = "completed"

(***************************************************************************)
(* renderJobs: the in-place sort by statusOrder (Array.prototype.sort is   *)
(* stable) and the content built from the sorted array.                    *)
(***************************************************************************)
\* the keys of statusOrder
KnownStatus(st) == st \in {"running", "queued", "completed", "failed"}

StatusOrder(st) ==
    CASE st = "running" -> 0
      [] st = "queued" -> 1
      [] st = "completed" -> 2
      [] OTHER -> 3

\* the comparator is negative for (a, b); statusOrder[st] is undefined for
\* an unknown status, the difference is then NaN, which sort takes as 0
SortsBefore(a, b) ==
    /\ KnownStatus(a.status)
    /\ KnownStatus(b.status)
    /\ StatusOrder(a.status) < StatusOrder(b.status)

RECURSIVE InsertJob(_, _)
InsertJob(sorted, j) ==
    IF sorted = <<>> THEN <<j>>
    ELSE IF SortsBefore(j, Head(sorted))
         THEN <<j>> \o sorted
         ELSE <<Head(sorted)>> \o InsertJob(Tail(sorted), j)

RECURSIVE SortJobs(_)
SortJobs(jobs) ==
    IF jobs = <<>> THEN <<>>
    ELSE InsertJob(SortJobs(SubSeq(jobs, 1, Len(jobs) - 1)), jobs[Len(jobs)])

\* renderJob throws a TypeError at job_id.substring when job_id is missing
RenderJobThrows(j) == j.job_id = NoId

RenderJobsThrows(jobs) == \E i \in 1..Len(jobs) : RenderJobThrows(jobs[i])

\* the array renderJobs was given, after the call: jobs.sort sorts in place
ArrayAfterRenderJobs(jobs) == SortJobs(jobs)

InitialView == [kind |-> "initial", jobs |-> <<>>]
EmptyView == [kind |-> "empty", jobs |-> <<>>]

\* the content renderJobs computes for the jobs list
RenderedContent(jobs) ==
    IF Len(jobs) = 0 THEN EmptyView
    ELSE [kind |-> "jobs", jobs |-> SortJobs(jobs)]

(***************************************************************************)
(* Timers.  setInterval returns a fresh id; clearInterval ends the timer   *)
(* with the id it is given.                                                *)
(***************************************************************************)
FreshTimerId(lt) ==
    CHOOSE n \in 1..(Cardinality(lt) + 1) : \A t \in lt : t.id # n

ClearInterval(lt, id) == { t \in lt : t.id # id }

\* The part of the state the render and timer helpers work on.
Dom ==
    [jobsView |-> jobsView, liveTimers |-> liveTimers,
     refreshInterval |-> refreshInterval,
     accordionRecalcTimeout |-> accordionRecalcTimeout,
     _cleanupTasks |-> _cleanupTasks]

SetDom(r) ==
    /\ jobsView' = r.jobsView
    /\ liveTimers' = r.liveTimers
    /\ refreshInterval' = r.refreshInterval
    /\ accordionRecalcTimeout' = r.accordionRecalcTimeout
    /\ _cleanupTasks' = r._cleanupTasks

StopForgetsClearInterval(r) ==
    [r EXCEPT !.refreshInterval = NULL, !.accordionRecalcTimeout = FALSE]

\* stopPeriodicRefresh: clears the poll interval and the accordion timeout
StopPeriodicRefresh(r) ==
    [r EXCEPT
        !.liveTimers =
            IF r.refreshInterval # NULL
            THEN ClearInterval(r.liveTimers, r.refreshInterval)
            ELSE r.liveTimers,
        !.refreshInterval = NULL,
        !.accordionRecalcTimeout = FALSE]

\* the period optimizeRefreshInterval chooses
PeriodFor(active) == IF active THEN FastPeriod ELSE SlowPeriod

OptimizeStopsWhenIdle(r, active) ==
    LET s == StopPeriodicRefresh(r)
        id == FreshTimerId(s.liveTimers)
    IN  IF active
        THEN [s EXCEPT
                !.liveTimers = @ \cup {[id |-> id, period |-> PeriodFor(active)]},
                !.refreshInterval = id]
        ELSE s

\* optimizeRefreshInterval, with this.hasActiveJobs = active
OptimizeRefreshInterval(r, active) ==
    LET s == StopPeriodicRefresh(r)
        id == FreshTimerId(s.liveTimers)
    IN  [s EXCEPT
            !.liveTimers = @ \cup {[id |-> id, period |-> PeriodFor(active)]},
            !.refreshInterval = id]

\* this._cleanupTasks.push(task)
PushCleanupTask(n) == IF n < MaxCleanupTasks THEN n + 1 ELSE n

\* scheduleAccordionRecalculation: clears the pending timeout, arms a new
\* one and registers a cleanup task that clears it
ScheduleAccordionRecalculation(r) ==
    [r EXCEPT !.accordionRecalcTimeout = TRUE,
              !._cleanupTasks = PushCleanupTask(@)]

\* renderEmptyState: writes the empty state only if the content differs
RenderEmptyState(r) ==
    IF r.jobsView # EmptyView
    THEN ScheduleAccordionRecalculation([r EXCEPT !.jobsView = EmptyView])
    ELSE r

\* renderJobs, for a job array on which renderJob does not throw
RenderJobs(r, jobs) ==
    IF Len(jobs) = 0 THEN RenderEmptyState(r)
    ELSE IF r.jobsView # RenderedContent(jobs)
         THEN ScheduleAccordionRecalculation(
                  [r EXCEPT !.jobsView = RenderedContent(jobs)])
         ELSE r

\* the period of the interval refreshInterval refers to (0 when none)
ArmedPeriod ==
    IF \E t \in liveTimers : t.id = refreshInterval
    THEN (CHOOSE t \in liveTimers : t.id = refreshInterval).period
    ELSE 0

(***************************************************************************)
(* loadJobs.  An element of inflight is an invocation suspended at         *)
(*   "fetch"        await fetch(status)            (line 232)              *)
(*   "json"         await response.json()          (line 252)              *)
(*   "abortedFetch" the fetch promise was rejected with AbortError by      *)
(*                  cleanup(); the continuation is a queued microtask      *)
(*   "abortedJson"  the body stream was errored with AbortError by         *)
(*                  cleanup(); the rejection arrives in a later task       *)
(* initial marks the invocation loadInitialJobs awaits.  overtaken is      *)
(* history: an invocation issued after this one has rendered already.      *)
(***************************************************************************)
Invocation(ph, init) == [phase |-> ph, initial |-> init, overtaken |-> FALSE]

RemoveAt(q, i) == SubSeq(q, 1, i - 1) \o SubSeq(q, i + 1, Len(q))

\* a microtask is queued: it runs before the event loop takes another task
MicrotaskPending ==
    \/ \E i \in 1..Len(inflight) : inflight[i].phase = "abortedFetch"
    \/ \E k \in 1..Len(clearRuns) : clearRuns[k].phase = "aborted"

\* the shortcodes panel
shortcodeVars ==
    <<shortcodes, shortcodesRendered, selectedShortcodes, shortcodesInflight,
      reimportInflight>>

\* An assignment to innerHTML of #jobsListContent replaces the card
\* elements: those a clearCompletedJobs invocation holds are in the
\* document no longer.
DetachCards(runs) ==
    [k \in 1..Len(runs) |-> [runs[k] EXCEPT !.attached = FALSE]]

\* renderJobs and renderEmptyState assign innerHTML exactly when they
\* change the content
CardsFollowView ==
    clearRuns' = IF jobsView' # jobsView THEN DetachCards(clearRuns) ELSE clearRuns

\* status requests the browser has sent and not yet answered or cancelled
RequestsInFlight ==
    Cardinality({ i \in 1..Len(inflight) : inflight[i].phase \in {"fetch", "json"} })

\* How an invocation ended: kind, the array of a 200 response as it was
\* parsed (jobs) and as the invocation left it (after), and whether
\* renderJobs or renderEmptyState was called.
Poll(kind, jobs, rendered) ==
    [kind |-> kind, jobs |-> jobs, after |-> jobs, rendered |-> rendered,
     overtaken |-> FALSE]

\* history: invocation i renders, so those issued before it are overtaken
Overtake(q, i, rendered) ==
    [k \in 1..Len(q) |->
        IF rendered /\ k < i THEN [q[k] EXCEPT !.overtaken = TRUE] ELSE q[k]]

GuardOff == FALSE

\* if (this._isRefreshing) return;
LoadJobsGuard == _isRefreshing

FinallyKeepsFlag ==
    /\ _isRefreshing' = _isRefreshing
    /\ refreshBtnDisabled' = FALSE

\* finally { this._isRefreshing = false; this.setRefreshLoading(false); }
Finally ==
    /\ _isRefreshing' = FALSE
    /\ refreshBtnDisabled' = FALSE

CatchNotifiesAbort(isAbort) == <<"console.error", "showNotification">>

CatchSilent(isAbort) == <<>>

\* catch (error): nothing for an AbortError, else console.error and a toast
Catch(isAbort) ==
    IF isAbort THEN <<>> ELSE <<"console.error", "showNotification">>

SkippedReleasesGuard ==
    /\ calls' = <<"skipped">>
    /\ _isRefreshing' = FALSE
    /\ UNCHANGED <<refreshBtnDisabled, inflight, lastPoll>>

\* return; (line 225): the call ends at the guard
LoadJobsSkipped ==
    /\ calls' = <<"skipped">>
    /\ UNCHANGED <<_isRefreshing, refreshBtnDisabled, inflight, lastPoll>>

\* A call of loadJobs() up to its first await.  With the signal already
\* aborted fetch() sends nothing and rejects at once, and the invocation
\* ends in the same task.
LoadJobsCall ==
    IF LoadJobsGuard
    THEN LoadJobsSkipped
    ELSE IF signalAborted
    THEN /\ Finally
         /\ calls' = <<"fetch(aborted)">> \o Catch(TRUE)
         /\ lastPoll' = Poll("abortedAtCall", <<>>, FALSE)
         /\ UNCHANGED inflight
    ELSE /\ Len(inflight) < MaxInflight
         /\ _isRefreshing' = TRUE
         /\ refreshBtnDisabled' = TRUE
         /\ inflight' = Append(inflight, Invocation("fetch", FALSE))
         /\ calls' = <<"fetch">>
         /\ UNCHANGED lastPoll

\* The end of invocation i: the finally block, and the return to
\* loadInitialJobs, which then calls loadDatabaseStats.  nDb is the number
\* of loadDatabaseStats calls the invocation made itself.
EndInvocation(i, poll, cs, nDb) ==
    LET n == nDb + (IF inflight[i].initial THEN 1 ELSE 0)
    IN  /\ dbStatsInflight + dbCollInflight + n <= MaxDbInflight
        /\ Finally
        /\ inflight' = RemoveAt(Overtake(inflight, i, poll.rendered), i)
        /\ lastPoll' = [poll EXCEPT !.overtaken = inflight[i].overtaken]
        /\ dbStatsInflight' = dbStatsInflight + n
        /\ calls' = cs

\* response.ok: the invocation goes on to await response.json()
FetchResolves200(i) ==
    /\ ~MicrotaskPending
    /\ inflight[i].phase = "fetch"
    /\ inflight' = [inflight EXCEPT ![i].phase = "json"]
    /\ calls' = <<>>
    /\ UNCHANGED <<refreshInterval, liveTimers, accordionRecalcTimeout, _cleanupTasks,
                   lastJobsHash, hasActiveJobs, _isRefreshing, signalAborted,
                   refreshBtnDisabled, stats, databaseCount, jobsView,
                   dbStatsInflight, dbCollInflight, submitPending, lastPoll>>
    /\ CardsFollowView
    /\ UNCHANGED shortcodeVars

AlwaysChanged == TRUE

\* if (this.lastJobsHash !== emptyHash)
EmptyStateChanged == lastJobsHash # EmptyHash

\* response.status === 404 (lines 237-248)
FetchResolves404(i) ==
    /\ ~MicrotaskPending
    /\ inflight[i].phase = "fetch"
    /\ IF EmptyStateChanged
       THEN /\ SetDom(OptimizeRefreshInterval(RenderEmptyState(Dom), FALSE))
            /\ stats' = ZeroStats
            /\ lastJobsHash' = EmptyHash
            /\ hasActiveJobs' = FALSE
            /\ EndInvocation(i, Poll("404", <<>>, TRUE),
                   <<"renderEmptyState", "updateStats", "optimizeRefreshInterval">>, 0)
       ELSE /\ EndInvocation(i, Poll("404", <<>>, FALSE), <<>>, 0)
            /\ UNCHANGED <<refreshInterval, liveTimers, accordionRecalcTimeout, _cleanupTasks,
                           lastJobsHash, hasActiveJobs, stats, jobsView>>
    /\ UNCHANGED <<signalAborted, databaseCount, dbCollInflight, submitPending>>
    /\ CardsFollowView
    /\ UNCHANGED shortcodeVars

\* The invocation ends in the catch block with an error that is no
\* AbortError: the response is not ok and not 404 (line 249), fetch rejects
\* on a network failure, or response.json() rejects or jobs.map throws on a
\* body that is no JSON array.
LoadJobsFails(i, ph) ==
    /\ ~MicrotaskPending
    /\ inflight[i].phase = ph
    /\ EndInvocation(i, Poll(IF ph = "fetch" THEN "error" ELSE "parseError", <<>>, FALSE),
                     Catch(FALSE), 0)
    /\ UNCHANGED <<refreshInterval, liveTimers, accordionRecalcTimeout, _cleanupTasks,
                   lastJobsHash, hasActiveJobs, signalAborted, stats,
                   databaseCount, jobsView, dbCollInflight, submitPending>>
    /\ CardsFollowView
    /\ UNCHANGED shortcodeVars

\* The AbortError raised by cleanup() reaches the invocation.
LoadJobsAborted(i) ==
    /\ inflight[i].phase \in {"abortedFetch", "abortedJson"}
    /\ inflight[i].phase = "abortedJson" => ~MicrotaskPending
    /\ EndInvocation(i, Poll("abort", <<>>, FALSE), Catch(TRUE), 0)
    /\ UNCHANGED <<refreshInterval, liveTimers, accordionRecalcTimeout, _cleanupTasks,
                   lastJobsHash, hasActiveJobs, signalAborted, stats,
                   databaseCount, jobsView, dbCollInflight, submitPending>>
    /\ CardsFollowView
    /\ UNCHANGED shortcodeVars

EveryPollAnEdge(had, has) == TRUE

\* if (hadActiveJobs !== this.hasActiveJobs)
ActivityChanged(had, has) == had # has

\* response.json() resolves with the array jobs (lines 252-285)
JsonResolves(i, jobs) ==
    /\ ~MicrotaskPending
    /\ inflight[i].phase = "json"
    /\ hasActiveJobs' = ActiveJobs(jobs)
    /\ IF lastJobsHash # JobsHash(jobs) /\ RenderJobsThrows(jobs)
       THEN \* renderJob throws before the content is written
            /\ EndInvocation(i, [Poll("threw", jobs, TRUE) EXCEPT
                                    !.after = ArrayAfterRenderJobs(jobs)],
                   <<"renderJobs">> \o Catch(FALSE), 0)
            /\ UNCHANGED <<refreshInterval, liveTimers, accordionRecalcTimeout, _cleanupTasks,
                           lastJobsHash, stats, jobsView>>
       ELSE LET changed == lastJobsHash # JobsHash(jobs)
                edge == ActivityChanged(hasActiveJobs, ActiveJobs(jobs))
                arr == IF changed THEN ArrayAfterRenderJobs(jobs) ELSE jobs
                r1 == IF changed THEN RenderJobs(Dom, jobs) ELSE Dom
                r2 == IF edge
                      THEN OptimizeRefreshInterval(r1, ActiveJobs(jobs))
                      ELSE r1
            IN  /\ SetDom(r2)
                /\ lastJobsHash' = JobsHash(jobs)
                /\ stats' = JobStats(arr)
                /\ EndInvocation(i, [Poll("200", jobs, changed) EXCEPT !.after = arr],
                       (IF changed THEN <<"renderJobs">> ELSE <<>>)
                       \o <<"updateStats">>
                       \o (IF edge THEN <<"optimizeRefreshInterval">> ELSE <<>>)
                       \o (IF HasCompleted(arr)
                           THEN <<"loadDatabaseStats">> ELSE <<>>),
                       IF HasCompleted(arr) THEN 1 ELSE 0)
    /\ UNCHANGED <<signalAborted, databaseCount, dbCollInflight, submitPending>>
    /\ CardsFollowView
    /\ UNCHANGED shortcodeVars

(***************************************************************************)
(* The callers of loadJobs.                                                *)
(***************************************************************************)
\* the setInterval callback of optimizeRefreshInterval
TimerFire ==
    /\ ~MicrotaskPending
    /\ \E t \in liveTimers : LoadJobsCall
    /\ UNCHANGED <<refreshInterval, liveTimers, accordionRecalcTimeout, _cleanupTasks,
                   lastJobsHash, hasActiveJobs, signalAborted, stats,
                   databaseCount, jobsView, dbStatsInflight, dbCollInflight,
                   submitPending>>
    /\ CardsFollowView
    /\ UNCHANGED shortcodeVars

\* click on refreshBtn (a disabled button dispatches no click)
RefreshClick ==
    /\ ~MicrotaskPending
    /\ ~refreshBtnDisabled
    /\ LoadJobsCall
    /\ UNCHANGED <<refreshInterval, liveTimers, accordionRecalcTimeout, _cleanupTasks,
                   lastJobsHash, hasActiveJobs, signalAborted, stats,
                   databaseCount, jobsView, dbStatsInflight, dbCollInflight,
                   submitPending>>
    /\ CardsFollowView
    /\ UNCHANGED shortcodeVars

\* handleSubmit up to await this.startImport(valid); without a supported URL
\* it returns after a notification.  setSubmitLoading(true) disables submitBtn.
HandleSubmit(valid) ==
    /\ ~MicrotaskPending
    /\ ~submitPending
    /\ submitPending' = valid
    /\ UNCHANGED <<refreshInterval, liveTimers, accordionRecalcTimeout, _cleanupTasks,
                   lastJobsHash, hasActiveJobs, _isRefreshing, signalAborted,
                   inflight, refreshBtnDisabled, stats, databaseCount, jobsView,
                   dbStatsInflight, dbCollInflight, lastPoll, calls>>
    /\ CardsFollowView
    /\ UNCHANGED shortcodeVars

\* handleSubmit after startImport settled: with a job id it notifies and
\* calls loadJobs(); otherwise (an error, or no job_id) only the catch block
\* or nothing runs; finally setSubmitLoading(false).
StartImportSettles(ok) ==
    /\ ~MicrotaskPending
    /\ submitPending
    /\ submitPending' = FALSE
    /\ IF ok
       THEN LoadJobsCall
       ELSE UNCHANGED <<_isRefreshing, refreshBtnDisabled, inflight, lastPoll,
                        calls>>
    /\ UNCHANGED <<refreshInterval, liveTimers, accordionRecalcTimeout, _cleanupTasks,
                   lastJobsHash, hasActiveJobs, signalAborted, stats,
                   databaseCount, jobsView, dbStatsInflight, dbCollInflight>>
    /\ CardsFollowView
    /\ UNCHANGED shortcodeVars

(***************************************************************************)
(* loadDatabaseStats.  Its two fetches carry no abort signal.              *)
(***************************************************************************)
\* values of total_recipes, count and total_documents in the responses
RecipeCounts == {0, 1}

\* /stats/database answers ok: updateDatabaseStats(stats)
DbStatsResolves(n) ==
    /\ ~MicrotaskPending
    /\ dbStatsInflight > 0
    /\ dbStatsInflight' = dbStatsInflight - 1
    /\ databaseCount' = n
    /\ UNCHANGED <<refreshInterval, liveTimers, accordionRecalcTimeout, _cleanupTasks,
                   lastJobsHash, hasActiveJobs, _isRefreshing, signalAborted,
                   inflight, refreshBtnDisabled, stats, jobsView,
                   dbCollInflight, submitPending, lastPoll, calls>>
    /\ CardsFollowView
    /\ UNCHANGED shortcodeVars

\* /stats/database answers not ok: fall back to /collection/info
DbStatsNotOk ==
    /\ ~MicrotaskPending
    /\ dbStatsInflight > 0
    /\ dbStatsInflight' = dbStatsInflight - 1
    /\ dbCollInflight' = dbCollInflight + 1
    /\ UNCHANGED <<refreshInterval, liveTimers, accordionRecalcTimeout, _cleanupTasks,
                   lastJobsHash, hasActiveJobs, _isRefreshing, signalAborted,
                   inflight, refreshBtnDisabled, stats, databaseCount, jobsView,
                   submitPending, lastPoll, calls>>
    /\ CardsFollowView
    /\ UNCHANGED shortcodeVars

\* the /stats/database fetch rejects: updateDatabaseStats({total_recipes: 0})
DbStatsRejects ==
    /\ ~MicrotaskPending
    /\ dbStatsInflight > 0
    /\ dbStatsInflight' = dbStatsInflight - 1
    /\ databaseCount' = 0
    /\ UNCHANGED <<refreshInterval, liveTimers, accordionRecalcTimeout, _cleanupTasks,
                   lastJobsHash, hasActiveJobs, _isRefreshing, signalAborted,
                   inflight, refreshBtnDisabled, stats, jobsView,
                   dbCollInflight, submitPending, lastPoll, calls>>
    /\ CardsFollowView
    /\ UNCHANGED shortcodeVars

\* /collection/info answers ok: count = info.count || info.total_documents || 0
CollectionInfoResolves(n) ==
    /\ ~MicrotaskPending
    /\ dbCollInflight > 0
    /\ dbCollInflight' = dbCollInflight - 1
    /\ databaseCount' = n
    /\ UNCHANGED <<refreshInterval, liveTimers, accordionRecalcTimeout, _cleanupTasks,
                   lastJobsHash, hasActiveJobs, _isRefreshing, signalAborted,
                   inflight, refreshBtnDisabled, stats, jobsView,
                   dbStatsInflight, submitPending, lastPoll, calls>>
    /\ CardsFollowView
    /\ UNCHANGED shortcodeVars

\* /collection/info answers not ok or its fetch rejects: nothing is shown
CollectionInfoFails ==
    /\ ~MicrotaskPending
    /\ dbCollInflight > 0
    /\ dbCollInflight' = dbCollInflight - 1
    /\ UNCHANGED <<refreshInterval, liveTimers, accordionRecalcTimeout, _cleanupTasks,
                   lastJobsHash, hasActiveJobs, _isRefreshing, signalAborted,
                   inflight, refreshBtnDisabled, stats, databaseCount, jobsView,
                   dbStatsInflight, submitPending, lastPoll, calls>>
    /\ CardsFollowView
    /\ UNCHANGED shortcodeVars

(***************************************************************************)
(* The accordion timeout and cleanup.                                      *)
(***************************************************************************)
\* the setTimeout callback of scheduleAccordionRecalculation
AccordionTimeoutFires ==
    /\ ~MicrotaskPending
    /\ accordionRecalcTimeout
    /\ accordionRecalcTimeout' = FALSE
    /\ UNCHANGED <<refreshInterval, liveTimers, _cleanupTasks, lastJobsHash, hasActiveJobs,
                   _isRefreshing, signalAborted, inflight, refreshBtnDisabled,
                   stats, databaseCount, jobsView, dbStatsInflight,
                   dbCollInflight, submitPending, lastPoll, calls>>
    /\ CardsFollowView
    /\ UNCHANGED shortcodeVars

\* abort() on the clearCompletedJobs invocations that await the DELETE
AbortClearRuns(runs) ==
    [k \in 1..Len(runs) |->
        IF runs[k].phase = "delete" THEN [runs[k] EXCEPT !.phase = "aborted"]
        ELSE runs[k]]

AbortNothing(q) == q

\* this._abortController.abort() on the suspended loadJobs invocations
Abort(q) ==
    [i \in 1..Len(q) |->
        IF q[i].phase = "fetch" THEN [q[i] EXCEPT !.phase = "abortedFetch"]
        ELSE IF q[i].phase = "json" THEN [q[i] EXCEPT !.phase = "abortedJson"]
        ELSE q[i]]

\* this._cleanupTasks.forEach(task => task()); this._cleanupTasks = [];
\* each task clears the accordion timeout if one is armed
RunCleanupTasks(r) ==
    [r EXCEPT !.accordionRecalcTimeout = IF r._cleanupTasks > 0 THEN FALSE ELSE @,
              !._cleanupTasks = 0]

\* cleanup(), called by the beforeunload and pagehide listeners
Cleanup ==
    /\ ~MicrotaskPending
    /\ SetDom(RunCleanupTasks(StopPeriodicRefresh(Dom)))
    /\ signalAborted' = TRUE
    /\ inflight' = Abort(inflight)
    /\ _isRefreshing' = FALSE
    /\ lastJobsHash' = NullHash
    /\ calls' = <<"cleanup">>
    /\ UNCHANGED <<hasActiveJobs, refreshBtnDisabled, stats, databaseCount,
                   dbStatsInflight, dbCollInflight, submitPending, lastPoll>>
    /\ clearRuns' = AbortClearRuns(clearRuns)
    /\ selectedShortcodes' = {}
    /\ UNCHANGED <<shortcodes, shortcodesRendered, shortcodesInflight,
                   reimportInflight>>

(***************************************************************************)
(* The timer methods as a caller of the instance (window.importManager)    *)
(* may call them, at any time.                                             *)
(***************************************************************************)
\* startPeriodicRefresh() { this.optimizeRefreshInterval(); }
StartPeriodicRefresh(r, active) == OptimizeRefreshInterval(r, active)

StartPeriodicRefreshCall ==
    /\ ~MicrotaskPending
    /\ SetDom(StartPeriodicRefresh(Dom, hasActiveJobs))
    /\ calls' = <<"startPeriodicRefresh">>
    /\ UNCHANGED <<lastJobsHash, hasActiveJobs, _isRefreshing, signalAborted,
                   inflight, refreshBtnDisabled, stats, databaseCount,
                   dbStatsInflight, dbCollInflight, submitPending, lastPoll>>
    /\ CardsFollowView
    /\ UNCHANGED shortcodeVars

StopPeriodicRefreshCall ==
    /\ ~MicrotaskPending
    /\ SetDom(StopPeriodicRefresh(Dom))
    /\ calls' = <<"stopPeriodicRefresh">>
    /\ UNCHANGED <<lastJobsHash, hasActiveJobs, _isRefreshing, signalAborted,
                   inflight, refreshBtnDisabled, stats, databaseCount,
                   dbStatsInflight, dbCollInflight, submitPending, lastPoll>>
    /\ CardsFollowView
    /\ UNCHANGED shortcodeVars

(***************************************************************************)
(* The state the constructor leaves: optimizeRefreshInterval has armed the *)
(* slow interval and loadInitialJobs is suspended in its loadJobs call.    *)
(***************************************************************************)
Init ==
    /\ refreshInterval = 1
    /\ liveTimers = {[id |-> 1, period |-> PeriodFor(FALSE)]}
    /\ accordionRecalcTimeout = FALSE
    /\ _cleanupTasks = 0
    /\ lastJobsHash = NullHash
    /\ hasActiveJobs = FALSE
    /\ _isRefreshing = TRUE
    /\ signalAborted = FALSE
    /\ inflight = <<Invocation("fetch", TRUE)>>
    /\ refreshBtnDisabled = TRUE
    /\ stats = UnsetStats
    /\ databaseCount = Unset
    /\ jobsView = InitialView
    /\ dbStatsInflight = 0
    /\ dbCollInflight = 0
    /\ submitPending = FALSE
    /\ calls = <<"fetch">>
    /\ lastPoll = Poll("none", <<>>, FALSE)
    /\ clearRuns = <<>>
    /\ shortcodes = {}
    /\ shortcodesRendered = {}
    /\ selectedShortcodes = {}
    /\ shortcodesInflight = 0
    /\ reimportInflight = <<>>

Next ==
    \/ TimerFire
    \/ RefreshClick
    \/ \E valid \in BOOLEAN : HandleSubmit(valid)
    \/ \E ok \in BOOLEAN : StartImportSettles(ok)
    \/ \E i \in 1..Len(inflight) : FetchResolves200(i)
    \/ \E i \in 1..Len(inflight) : FetchResolves404(i)
    \/ \E i \in 1..Len(inflight) : \E ph \in {"fetch", "json"} : LoadJobsFails(i, ph)
    \/ \E i \in 1..Len(inflight) : LoadJobsAborted(i)
    \/ \E i \in 1..Len(inflight) : \E jobs \in JobLists : JsonResolves(i, jobs)
    \/ \E i \in 1..Len(inflight) : \E jobs \in MalformedLists : JsonResolves(i, jobs)
    \/ \E n \in RecipeCounts : DbStatsResolves(n)
    \/ DbStatsNotOk
    \/ DbStatsRejects
    \/ \E n \in RecipeCounts : CollectionInfoResolves(n)
    \/ CollectionInfoFails
    \/ AccordionTimeoutFires
    \/ Cleanup

Spec == Init /\ [][Next]_vars

\* the program with calls of its timer methods from outside the class
NextApi ==
    \/ Next
    \/ StartPeriodicRefreshCall
    \/ StopPeriodicRefreshCall

SpecApi == Init /\ [][NextApi]_vars

\* the program with calls of stopPeriodicRefresh from outside the class
NextTeardown ==
    \/ Next
    \/ StopPeriodicRefreshCall

SpecTeardown == Init /\ [][NextTeardown]_vars

\* the program with a status endpoint that also answers the arrays of
\* PayloadLists
NextPayload ==
    \/ Next
    \/ \E i \in 1..Len(inflight) : \E jobs \in PayloadLists : JsonResolves(i, jobs)

SpecPayload == Init /\ [][NextPayload]_vars

(***************************************************************************)
(* clearCompletedJobs.  An element of clearRuns is an invocation:          *)
(*   phase "delete"   awaiting the DELETE request (lines 317-326)          *)
(*         "aborted"  the DELETE was rejected with AbortError by cleanup() *)
(*         "timers"   the timeouts of lines 331-342 and 362-364 pending    *)
(*   cards            the job ids of the captured cards not yet removed    *)
(*   attached         the captured cards are still in the document         *)
(*   emptyPending     the renderEmptyState timeout is pending              *)
(* The timeout of card k fires at 100 k + 300 ms and that of               *)
(* renderEmptyState at 100 n + 500 ms, so they fire in this order.         *)
(***************************************************************************)
Finished(j) == j.status = "completed" \/ j.status = "failed"

\* the job cards in #jobsListContent
JobCards(view) == IF view.kind = "jobs" THEN view.jobs ELSE <<>>

\* querySelectorAll('.step-completed, .step-failed'), as job ids
FinishedCards(view) ==
    LET f == SelectSeq(JobCards(view), Finished)
    IN  [k \in 1..Len(f) |-> f[k].job_id]

ClearRun(cards) ==
    [phase |-> "delete", cards |-> cards, attached |-> TRUE,
     emptyPending |-> FALSE]

\* click on clearCompletedBtn, confirmed: clearCompletedJobs up to the
\* await of the DELETE; with the signal aborted fetch rejects at once
ClearCompletedClick ==
    /\ ~MicrotaskPending
    /\ Len(clearRuns) < MaxClearRuns
    /\ FinishedCards(jobsView) # <<>>
    /\ IF signalAborted
       THEN /\ calls' = <<"clearCompletedJobs", "console.error", "showNotification">>
            /\ UNCHANGED clearRuns
       ELSE /\ calls' = <<"clearCompletedJobs">>
            /\ clearRuns' = Append(clearRuns, ClearRun(FinishedCards(jobsView)))
    /\ UNCHANGED <<refreshInterval, liveTimers, accordionRecalcTimeout, _cleanupTasks,
                   lastJobsHash, hasActiveJobs, _isRefreshing, signalAborted,
                   inflight, refreshBtnDisabled, stats, databaseCount, jobsView,
                   dbStatsInflight, dbCollInflight, submitPending, lastPoll,
                   shortcodeVars>>

NotFinished(j) == ~Finished(j)

Running(j) == j.status = "running"

\* The DELETE answers ok (lines 326-365): the timeouts are set, the
\* counters are written from the cards in the document, and the
\* renderEmptyState timeout is set if no other card is there.  otherCards:
\* the page has elements of class card-elevated outside the job list.
DeleteResolves(k, otherCards) ==
    /\ ~MicrotaskPending
    /\ clearRuns[k].phase = "delete"
    /\ clearRuns' =
           [clearRuns EXCEPT
               ![k].phase = "timers",
               ![k].emptyPending =
                   /\ SelectSeq(JobCards(jobsView), NotFinished) = <<>>
                   /\ ~otherCards]
    /\ stats' = [completed |-> 0,
                 running |-> Len(SelectSeq(JobCards(jobsView), Running)),
                 queued |-> 0]
    /\ calls' = <<"updateStats", "showNotification">>
    /\ UNCHANGED <<refreshInterval, liveTimers, accordionRecalcTimeout, _cleanupTasks,
                   lastJobsHash, hasActiveJobs, _isRefreshing, signalAborted,
                   inflight, refreshBtnDisabled, databaseCount, jobsView,
                   dbStatsInflight, dbCollInflight, submitPending, lastPoll,
                   shortcodeVars>>

\* The DELETE answers not ok or is rejected, by the network or by
\* cleanup(): the catch block logs and notifies, also for an AbortError.
DeleteFails(k) ==
    /\ clearRuns[k].phase \in {"delete", "aborted"}
    /\ clearRuns[k].phase = "delete" => ~MicrotaskPending
    /\ clearRuns' = RemoveAt(clearRuns, k)
    /\ calls' = <<"console.error", "showNotification">>
    /\ UNCHANGED <<refreshInterval, liveTimers, accordionRecalcTimeout, _cleanupTasks,
                   lastJobsHash, hasActiveJobs, _isRefreshing, signalAborted,
                   inflight, refreshBtnDisabled, stats, databaseCount, jobsView,
                   dbStatsInflight, dbCollInflight, submitPending, lastPoll,
                   shortcodeVars>>

\* job.remove(): the card leaves the document if it was still in it
RemoveCard(view, id, attached) ==
    IF attached /\ view.kind = "jobs"
    THEN [view EXCEPT !.jobs = SelectSeq(@, LAMBDA j : j.job_id # id)]
    ELSE view

\* the invocation is over when no timeout of it is pending
DropFinishedRun(runs, k) ==
    IF runs[k].cards = <<>> /\ ~runs[k].emptyPending THEN RemoveAt(runs, k)
    ELSE runs

\* the inner timeout of a card (lines 336-340): job.remove() and
\* scheduleAccordionRecalculation('jobsList')
CardRemovalFires(k) ==
    /\ ~MicrotaskPending
    /\ clearRuns[k].phase = "timers"
    /\ clearRuns[k].cards # <<>>
    /\ SetDom(ScheduleAccordionRecalculation(
           [Dom EXCEPT !.jobsView =
               RemoveCard(@, Head(clearRuns[k].cards), clearRuns[k].attached)]))
    /\ clearRuns' = DropFinishedRun([clearRuns EXCEPT ![k].cards = Tail(@)], k)
    /\ calls' = <<"remove", "scheduleAccordionRecalculation">>
    /\ UNCHANGED <<lastJobsHash, hasActiveJobs, _isRefreshing, signalAborted,
                   inflight, refreshBtnDisabled, stats, databaseCount,
                   dbStatsInflight, dbCollInflight, submitPending, lastPoll,
                   shortcodeVars>>

\* the timeout of lines 362-364: this.renderEmptyState()
EmptyStateTimeoutFires(k) ==
    /\ ~MicrotaskPending
    /\ clearRuns[k].phase = "timers"
    /\ clearRuns[k].cards = <<>>
    /\ clearRuns[k].emptyPending
    /\ SetDom(RenderEmptyState(Dom))
    /\ clearRuns' =
           RemoveAt(IF jobsView # EmptyView THEN DetachCards(clearRuns)
                    ELSE clearRuns, k)
    /\ calls' = <<"renderEmptyState">>
    /\ UNCHANGED <<lastJobsHash, hasActiveJobs, _isRefreshing, signalAborted,
                   inflight, refreshBtnDisabled, stats, databaseCount,
                   dbStatsInflight, dbCollInflight, submitPending, lastPoll,
                   shortcodeVars>>

(***************************************************************************)
(* The shortcodes panel.                                                   *)
(***************************************************************************)
\* the shortcode strings the server may list
Shortcodes == {"s1", "s2"}

\* click on refreshShortcodesBtn or on the retry button, and the call of
\* loadInitialJobs: loadShortcodes up to await fetch(/shortcodes/list)
LoadShortcodesCall ==
    /\ ~MicrotaskPending
    /\ shortcodesInflight < MaxShortcodeLoads
    /\ shortcodesInflight' = shortcodesInflight + 1
    /\ calls' = <<"loadShortcodes">>
    /\ UNCHANGED <<refreshInterval, liveTimers, accordionRecalcTimeout, _cleanupTasks,
                   lastJobsHash, hasActiveJobs, _isRefreshing, signalAborted,
                   inflight, refreshBtnDisabled, stats, databaseCount, jobsView,
                   dbStatsInflight, dbCollInflight, submitPending, lastPoll,
                   clearRuns, shortcodes, shortcodesRendered,
                   selectedShortcodes, reimportInflight>>

\* /shortcodes/list answers with list: this.shortcodes = data.shortcodes,
\* renderShortcodesList(), updateShortcodeCounters()
ShortcodesResolves(list) ==
    /\ ~MicrotaskPending
    /\ shortcodesInflight > 0
    /\ shortcodesInflight' = shortcodesInflight - 1
    /\ shortcodes' = list
    /\ shortcodesRendered' = list
    /\ calls' = <<"renderShortcodesList", "updateShortcodeCounters">>
    /\ UNCHANGED <<refreshInterval, liveTimers, accordionRecalcTimeout, _cleanupTasks,
                   lastJobsHash, hasActiveJobs, _isRefreshing, signalAborted,
                   inflight, refreshBtnDisabled, stats, databaseCount, jobsView,
                   dbStatsInflight, dbCollInflight, submitPending, lastPoll,
                   clearRuns, selectedShortcodes, reimportInflight>>

\* the request fails: notification and renderShortcodesError()
ShortcodesFails ==
    /\ ~MicrotaskPending
    /\ shortcodesInflight > 0
    /\ shortcodesInflight' = shortcodesInflight - 1
    /\ shortcodesRendered' = {}
    /\ calls' = <<"console.error", "showNotification", "renderShortcodesError">>
    /\ UNCHANGED <<refreshInterval, liveTimers, accordionRecalcTimeout, _cleanupTasks,
                   lastJobsHash, hasActiveJobs, _isRefreshing, signalAborted,
                   inflight, refreshBtnDisabled, stats, databaseCount, jobsView,
                   dbStatsInflight, dbCollInflight, submitPending, lastPoll,
                   clearRuns, shortcodes, selectedShortcodes, reimportInflight>>

\* toggleShortcodeSelection(sc), the onchange handler of a rendered checkbox
ToggleShortcodeSelection(sc) ==
    /\ ~MicrotaskPending
    /\ sc \in shortcodesRendered
    /\ selectedShortcodes' =
           IF sc \in selectedShortcodes THEN selectedShortcodes \ {sc}
           ELSE selectedShortcodes \cup {sc}
    /\ calls' = <<"toggleShortcodeSelection">>
    /\ UNCHANGED <<refreshInterval, liveTimers, accordionRecalcTimeout, _cleanupTasks,
                   lastJobsHash, hasActiveJobs, _isRefreshing, signalAborted,
                   inflight, refreshBtnDisabled, stats, databaseCount, jobsView,
                   dbStatsInflight, dbCollInflight, submitPending, lastPoll,
                   clearRuns, shortcodes, shortcodesRendered,
                   shortcodesInflight, reimportInflight>>

\* selectAllShortcodes()
SelectAllShortcodes ==
    /\ ~MicrotaskPending
    /\ selectedShortcodes' = selectedShortcodes \cup shortcodes
    /\ shortcodesRendered' = shortcodes
    /\ calls' = <<"selectAllShortcodes">>
    /\ UNCHANGED <<refreshInterval, liveTimers, accordionRecalcTimeout, _cleanupTasks,
                   lastJobsHash, hasActiveJobs, _isRefreshing, signalAborted,
                   inflight, refreshBtnDisabled, stats, databaseCount, jobsView,
                   dbStatsInflight, dbCollInflight, submitPending, lastPoll,
                   clearRuns, shortcodes, shortcodesInflight, reimportInflight>>

\* deselectAllShortcodes()
DeselectAllShortcodes ==
    /\ ~MicrotaskPending
    /\ selectedShortcodes' = {}
    /\ shortcodesRendered' = shortcodes
    /\ calls' = <<"deselectAllShortcodes">>
    /\ UNCHANGED <<refreshInterval, liveTimers, accordionRecalcTimeout, _cleanupTasks,
                   lastJobsHash, hasActiveJobs, _isRefreshing, signalAborted,
                   inflight, refreshBtnDisabled, stats, databaseCount, jobsView,
                   dbStatsInflight, dbCollInflight, submitPending, lastPoll,
                   clearRuns, shortcodes, shortcodesInflight, reimportInflight>>

\* reimportSelectedShortcodes(), confirmed, up to the await of the POST of
\* Array.from(this.selectedShortcodes)
ReimportClick ==
    /\ ~MicrotaskPending
    /\ selectedShortcodes # {}
    /\ Len(reimportInflight) < MaxReimports
    /\ reimportInflight' = Append(reimportInflight, selectedShortcodes)
    /\ calls' = <<"reimportSelectedShortcodes">>
    /\ UNCHANGED <<refreshInterval, liveTimers, accordionRecalcTimeout, _cleanupTasks,
                   lastJobsHash, hasActiveJobs, _isRefreshing, signalAborted,
                   inflight, refreshBtnDisabled, stats, databaseCount, jobsView,
                   dbStatsInflight, dbCollInflight, submitPending, lastPoll,
                   clearRuns, shortcodes, shortcodesRendered,
                   selectedShortcodes, shortcodesInflight>>

\* the POST settles: when ok, deselectAllShortcodes() and loadJobs();
\* otherwise the catch block notifies
ReimportSettles(k, ok) ==
    /\ ~MicrotaskPending
    /\ k \in 1..Len(reimportInflight)
    /\ reimportInflight' = RemoveAt(reimportInflight, k)
    /\ IF ok
       THEN /\ selectedShortcodes' = {}
            /\ shortcodesRendered' = shortcodes
            /\ LoadJobsCall
       ELSE UNCHANGED <<selectedShortcodes, shortcodesRendered, _isRefreshing,
                        refreshBtnDisabled, inflight, lastPoll, calls>>
    /\ UNCHANGED <<refreshInterval, liveTimers, accordionRecalcTimeout, _cleanupTasks,
                   lastJobsHash, hasActiveJobs, signalAborted, stats,
                   databaseCount, jobsView, dbStatsInflight, dbCollInflight,
                   submitPending, clearRuns, shortcodes, shortcodesInflight>>

(***************************************************************************)
(* The poller of src/frontend/import.js, the second variant of class       *)
(* ImportManager.  It has no guard flag, no fingerprint, no abort          *)
(* controller and no accordion timeout: the variables that stand for them  *)
(* keep their initial values.  Its loadDatabaseStats and handleSubmit are  *)
(* those of the first variant.                                             *)
(***************************************************************************)
FrontendPeriod == 2000

FrontendAbsent ==
    <<accordionRecalcTimeout, _cleanupTasks, lastJobsHash, hasActiveJobs,
      _isRefreshing, signalAborted>>

\* loadJobs() up to await fetch(status): setRefreshLoading(true), no guard
FrontendLoadJobsCall ==
    /\ Len(inflight) < MaxInflight
    /\ refreshBtnDisabled' = TRUE
    /\ inflight' = Append(inflight, Invocation("fetch", FALSE))
    /\ calls' = <<"fetch">>
    /\ UNCHANGED lastPoll

\* finally { this.setRefreshLoading(false); } and the return to
\* loadInitialJobs, which then calls loadDatabaseStats
FrontendEndInvocation(i, poll, cs, nDb) ==
    LET n == nDb + (IF inflight[i].initial THEN 1 ELSE 0)
    IN  /\ dbStatsInflight + dbCollInflight + n <= MaxDbInflight
        /\ refreshBtnDisabled' = FALSE
        /\ inflight' = RemoveAt(Overtake(inflight, i, poll.rendered), i)
        /\ lastPoll' = [poll EXCEPT !.overtaken = inflight[i].overtaken]
        /\ dbStatsInflight' = dbStatsInflight + n
        /\ calls' = cs

FrontendFetchResolves200(i) ==
    /\ inflight[i].phase = "fetch"
    /\ inflight' = [inflight EXCEPT ![i].phase = "json"]
    /\ calls' = <<>>
    /\ UNCHANGED <<refreshInterval, liveTimers, refreshBtnDisabled, stats,
                   databaseCount, jobsView, dbStatsInflight, dbCollInflight,
                   submitPending, lastPoll, FrontendAbsent>>
    /\ CardsFollowView
    /\ UNCHANGED shortcodeVars

\* response.status === 404: renderEmptyState and zero counters, every time
FrontendFetchResolves404(i) ==
    /\ inflight[i].phase = "fetch"
    /\ jobsView' = EmptyView
    /\ stats' = ZeroStats
    /\ FrontendEndInvocation(i, Poll("404", <<>>, TRUE),
           <<"renderEmptyState", "updateStats">>, 0)
    /\ UNCHANGED <<refreshInterval, liveTimers, databaseCount, dbCollInflight,
                   submitPending, FrontendAbsent>>
    /\ CardsFollowView
    /\ UNCHANGED shortcodeVars

\* the catch block: console.error and a notification for every error
FrontendLoadJobsFails(i, ph) ==
    /\ inflight[i].phase = ph
    /\ FrontendEndInvocation(i,
           Poll(IF ph = "fetch" THEN "error" ELSE "parseError", <<>>, FALSE),
           <<"console.error", "showNotification">>, 0)
    /\ UNCHANGED <<refreshInterval, liveTimers, stats, databaseCount, jobsView,
                   dbCollInflight, submitPending, FrontendAbsent>>
    /\ CardsFollowView
    /\ UNCHANGED shortcodeVars

\* response.json() resolves: renderJobs writes the list unconditionally
FrontendJsonResolves(i, jobs) ==
    /\ inflight[i].phase = "json"
    /\ IF RenderJobsThrows(jobs)
       THEN /\ FrontendEndInvocation(i,
                   [Poll("threw", jobs, TRUE) EXCEPT
                       !.after = ArrayAfterRenderJobs(jobs)],
                   <<"renderJobs", "console.error", "showNotification">>, 0)
            /\ UNCHANGED <<stats, jobsView>>
       ELSE LET arr == ArrayAfterRenderJobs(jobs)
            IN  /\ jobsView' = RenderedContent(jobs)
                /\ stats' = JobStats(arr)
                /\ FrontendEndInvocation(i,
                       [Poll("200", jobs, TRUE) EXCEPT !.after = arr],
                       <<"renderJobs", "updateStats">>
                       \o (IF HasCompleted(arr)
                           THEN <<"loadDatabaseStats">> ELSE <<>>),
                       IF HasCompleted(arr) THEN 1 ELSE 0)
    /\ UNCHANGED <<refreshInterval, liveTimers, databaseCount, dbCollInflight,
                   submitPending, FrontendAbsent>>
    /\ CardsFollowView
    /\ UNCHANGED shortcodeVars

\* the setInterval callback of startPeriodicRefresh
FrontendTimerFire ==
    /\ \E t \in liveTimers : FrontendLoadJobsCall
    /\ UNCHANGED <<refreshInterval, liveTimers, stats, databaseCount, jobsView,
                   dbStatsInflight, dbCollInflight, submitPending,
                   FrontendAbsent>>
    /\ CardsFollowView
    /\ UNCHANGED shortcodeVars

\* click on refreshBtn (a disabled button dispatches no click)
FrontendRefreshClick ==
    /\ ~refreshBtnDisabled
    /\ FrontendLoadJobsCall
    /\ UNCHANGED <<refreshInterval, liveTimers, stats, databaseCount, jobsView,
                   dbStatsInflight, dbCollInflight, submitPending,
                   FrontendAbsent>>
    /\ CardsFollowView
    /\ UNCHANGED shortcodeVars

\* handleSubmit after startImport settled: loadJobs() when a job id came
FrontendStartImportSettles(ok) ==
    /\ submitPending
    /\ submitPending' = FALSE
    /\ IF ok
       THEN FrontendLoadJobsCall
       ELSE UNCHANGED <<refreshBtnDisabled, inflight, lastPoll, calls>>
    /\ UNCHANGED <<refreshInterval, liveTimers, stats, databaseCount, jobsView,
                   dbStatsInflight, dbCollInflight, FrontendAbsent>>
    /\ CardsFollowView
    /\ UNCHANGED shortcodeVars

\* stopPeriodicRefresh(), called by the beforeunload listener
FrontendStopPeriodicRefresh ==
    /\ refreshInterval # NULL
    /\ liveTimers' = ClearInterval(liveTimers, refreshInterval)
    /\ refreshInterval' = NULL
    /\ calls' = <<"stopPeriodicRefresh">>
    /\ UNCHANGED <<inflight, refreshBtnDisabled, stats, databaseCount, jobsView,
                   dbStatsInflight, dbCollInflight, submitPending, lastPoll,
                   FrontendAbsent>>
    /\ CardsFollowView
    /\ UNCHANGED shortcodeVars

\* the state the constructor leaves: startPeriodicRefresh has armed the
\* interval and loadInitialJobs is suspended in its loadJobs call
InitFrontend ==
    /\ refreshInterval = 1
    /\ liveTimers = {[id |-> 1, period |-> FrontendPeriod]}
    /\ accordionRecalcTimeout = FALSE
    /\ _cleanupTasks = 0
    /\ lastJobsHash = NullHash
    /\ hasActiveJobs = FALSE
    /\ _isRefreshing = FALSE
    /\ signalAborted = FALSE
    /\ inflight = <<Invocation("fetch", TRUE)>>
    /\ refreshBtnDisabled = TRUE
    /\ stats = UnsetStats
    /\ databaseCount = Unset
    /\ jobsView = InitialView
    /\ dbStatsInflight = 0
    /\ dbCollInflight = 0
    /\ submitPending = FALSE
    /\ calls = <<"fetch">>
    /\ lastPoll = Poll("none", <<>>, FALSE)
    /\ clearRuns = <<>>
    /\ shortcodes = {}
    /\ shortcodesRendered = {}
    /\ selectedShortcodes = {}
    /\ shortcodesInflight = 0
    /\ reimportInflight = <<>>

NextFrontend ==
    \/ FrontendTimerFire
    \/ FrontendRefreshClick
    \/ \E valid \in BOOLEAN : HandleSubmit(valid)
    \/ \E ok \in BOOLEAN : FrontendStartImportSettles(ok)
    \/ \E i \in 1..Len(inflight) : FrontendFetchResolves200(i)
    \/ \E i \in 1..Len(inflight) : FrontendFetchResolves404(i)
    \/ \E i \in 1..Len(inflight) : \E ph \in {"fetch", "json"} :
           FrontendLoadJobsFails(i, ph)
    \/ \E i \in 1..Len(inflight) : \E jobs \in JobLists \cup MalformedLists :
           FrontendJsonResolves(i, jobs)
    \/ \E n \in RecipeCounts : DbStatsResolves(n)
    \/ DbStatsNotOk
    \/ DbStatsRejects
    \/ \E n \in RecipeCounts : CollectionInfoResolves(n)
    \/ CollectionInfoFails
    \/ FrontendStopPeriodicRefresh

SpecFrontend == InitFrontend /\ [][NextFrontend]_vars

(***************************************************************************)
(* The poller together with the clearCompletedBtn, and with the shortcodes *)
(* panel.                                                                  *)
(***************************************************************************)
\* job arrays of a server with a finished job A and a running job B
FewLists ==
    { <<MkJob("A", "completed", 1000, "done")>>,
      <<MkJob("B", "running", 500, "download")>>,
      <<MkJob("A", "failed", 500, "error"), MkJob("B", "running", 500, "download")>> }

\* the arrays of a server with the running job A alone, at two stages
RunningLists ==
    { <<MkJob("A", "running", 500, "download")>>,
      <<MkJob("A", "running", 500, "stt")>> }

\* the poller on the job arrays of lists
PollingOn(lists) ==
    \/ TimerFire
    \/ RefreshClick
    \/ \E i \in 1..Len(inflight) : FetchResolves200(i)
    \/ \E i \in 1..Len(inflight) : FetchResolves404(i)
    \/ \E i \in 1..Len(inflight) : \E ph \in {"fetch", "json"} : LoadJobsFails(i, ph)
    \/ \E i \in 1..Len(inflight) : LoadJobsAborted(i)
    \/ \E i \in 1..Len(inflight) : \E jobs \in lists : JsonResolves(i, jobs)
    \/ \E n \in RecipeCounts : DbStatsResolves(n)
    \/ DbStatsNotOk
    \/ DbStatsRejects
    \/ \E n \in RecipeCounts : CollectionInfoResolves(n)
    \/ CollectionInfoFails
    \/ AccordionTimeoutFires
    \/ Cleanup

\* the poller and the clearCompletedBtn
NextClear ==
    \/ PollingOn(FewLists)
    \/ ClearCompletedClick
    \/ \E k \in 1..Len(clearRuns) : \E otherCards \in BOOLEAN :
           DeleteResolves(k, otherCards)
    \/ \E k \in 1..Len(clearRuns) : DeleteFails(k)
    \/ \E k \in 1..Len(clearRuns) : CardRemovalFires(k)
    \/ \E k \in 1..Len(clearRuns) : EmptyStateTimeoutFires(k)

SpecClear == Init /\ [][NextClear]_vars

\* the poller and the shortcodes panel
NextShortcodes ==
    \/ PollingOn(RunningLists)
    \/ LoadShortcodesCall
    \/ \E list \in SUBSET Shortcodes : ShortcodesResolves(list)
    \/ ShortcodesFails
    \/ \E sc \in Shortcodes : ToggleShortcodeSelection(sc)
    \/ SelectAllShortcodes
    \/ DeselectAllShortcodes
    \/ ReimportClick
    \/ \E k \in 1..Len(reimportInflight) : \E ok \in BOOLEAN : ReimportSettles(k, ok)

SpecShortcodes == Init /\ [][NextShortcodes]_vars

(***************************************************************************)
(* Fairness: every request the browser has sent is answered or fails, and  *)
(* every rejection that was raised is delivered.                           *)
(***************************************************************************)
Settle ==
    \E i \in 1..Len(inflight) :
        \/ FetchResolves200(i)
        \/ FetchResolves404(i)
        \/ \E ph \in {"fetch", "json"} : LoadJobsFails(i, ph)
        \/ LoadJobsAborted(i)
        \/ \E jobs \in JobLists \cup MalformedLists : JsonResolves(i, jobs)

SpecFair == Spec /\ WF_vars(Settle)

\* Fairness of the poll loop: besides, an armed interval fires.
SpecPollFair == Spec /\ WF_vars(Settle) /\ WF_vars(TimerFire)

(***************************************************************************)
(* Properties.                                                             *)
(***************************************************************************)
\* a loadJobs invocation that was suspended ends in this step in the way kind
PollEnded(kind) == Len(inflight') < Len(inflight) /\ lastPoll'.kind = kind

\* the invocation that ends in this step had received a 200 response with an array
PollEndedOn200 == PollEnded("200") \/ PollEnded("threw")

\* a loadJobs invocation runs its finally block in this step
InvocationEnds ==
    \/ Len(inflight') < Len(inflight)
    \/ (calls' # <<>> /\ Head(calls') = "fetch(aborted)")

NotificationCount(cs) ==
    Cardinality({ i \in 1..Len(cs) : cs[i] = "showNotification" })

\* C1: at most one request to /recipes/ingest/status is in flight in every
\* reachable state, and a step that issues the fetch of a loadJobs call
\* leaves that invocation the only one that has not left its finally block.
MutualExclusion ==
    /\ RequestsInFlight <= 1
    /\ calls = <<"fetch">> => Len(inflight) = 1

\* C1 witness: a loadJobs call arrived while a request was in flight and
\* returned at the guard.
MutualExclusionWitness ==
    /\ RequestsInFlight = 1
    /\ calls = <<"skipped">>

\* C2 (as claimed): a poll that receives a 200 array with the projection of
\* the array of the poll before it does not invoke renderJobs.
IdempotentRender ==
    [][(/\ lastPoll.kind \in {"200", "threw"}
        /\ PollEndedOn200
        /\ JobsHash(lastPoll'.jobs) = JobsHash(lastPoll.jobs))
       => ~lastPoll'.rendered]_vars

\* C3 (as claimed): after a loadJobs that completes on a 200 response the
\* armed interval has period 1500 if the array holds a running or queued
\* job and 10000 otherwise; after one that completes on 404 it is 10000.
CadenceCorrectness ==
    [][/\ PollEnded("200") =>
            ArmedPeriod' = (IF \E i \in 1..Len(lastPoll'.jobs) :
                                  lastPoll'.jobs[i].status \in {"running", "queued"}
                            THEN 1500 ELSE 10000)
       /\ PollEnded("404") => ArmedPeriod' = 10000]_vars

\* C4: a 404 poll that follows a 404 poll calls nothing and leaves the
\* counters, hasActiveJobs, the view and the timer as they are; a 404 poll
\* that follows a completed 200 poll renders the empty state and zeroes the
\* counters.
EmptySetHandling ==
    [][/\ (lastPoll.kind = "404" /\ PollEnded("404")) =>
            /\ calls' = <<>>
            /\ UNCHANGED <<stats, hasActiveJobs, jobsView, refreshInterval,
                           liveTimers>>
       /\ (lastPoll.kind = "200" /\ PollEnded("404")) =>
            /\ calls' = <<"renderEmptyState", "updateStats",
                          "optimizeRefreshInterval">>
            /\ stats' = ZeroStats
            /\ jobsView' = EmptyView]_vars

\* C4 witness: a 404 poll ended without rendering, the empty state being
\* the stored fingerprint.
EmptySetHandlingWitness ==
    /\ lastPoll.kind = "404"
    /\ ~lastPoll.rendered
    /\ lastJobsHash = EmptyHash
    /\ jobsView = EmptyView
    /\ stats = ZeroStats

\* C5 (as claimed): after every loadJobs that receives a 200 job array the
\* three counters equal the number of jobs of that status in the array.
CounterLiveness ==
    [][PollEndedOn200 =>
        /\ stats'.completed = CountStatus(lastPoll'.jobs, "completed")
        /\ stats'.running = CountStatus(lastPoll'.jobs, "running")
        /\ stats'.queued = CountStatus(lastPoll'.jobs, "queued")]_vars

\* C6: once cleanup() has run (the abort signal is raised) refreshInterval
\* is null and no interval is live, in every later state.
DisposalFinalityTimer ==
    signalAborted => (refreshInterval = NULL /\ liveTimers = {})

\* C6 witness: after cleanup() a loadJobs call was made (a click or a
\* submit) and ended, and the request that was in flight has ended.
DisposalFinalityTimerWitness ==
    /\ signalAborted
    /\ lastPoll.kind = "abortedAtCall"
    /\ Len(inflight) = 0

\* C7 (as claimed): after cleanup() no response changes the jobs view, the
\* counters or the database count.
LateResponsesDiscarded ==
    [][signalAborted => UNCHANGED <<jobsView, stats, databaseCount>>]_vars

\* C8: a step in which a loadJobs invocation ends leaves _isRefreshing
\* false, whatever the outcome; and, every request settling, _isRefreshing
\* true leads to _isRefreshing false.
GuardRelease ==
    /\ [][InvocationEnds => ~_isRefreshing']_vars
    /\ (_isRefreshing ~> ~_isRefreshing)

\* C8 witness: an invocation ended by an exception of renderJobs, and the
\* flag is false.
GuardReleaseWitness ==
    /\ lastPoll.kind = "threw"
    /\ Len(inflight) = 0
    /\ ~_isRefreshing

\* C9: a loadJobs whose fetch rejects (not by abort) or returns a status
\* that is neither 2xx nor 404 shows one notification and leaves
\* lastJobsHash, the counters, hasActiveJobs, the view and the timer as
\* they are.
TransportFailurePreservesState ==
    [][PollEnded("error") =>
        /\ NotificationCount(calls') = 1
        /\ UNCHANGED <<lastJobsHash, stats, hasActiveJobs, jobsView,
                       refreshInterval, liveTimers>>]_vars

\* C9 witness: a poll failed while jobs were shown and the fast interval
\* was armed.
TransportFailureWitness ==
    /\ lastPoll.kind = "error"
    /\ NotificationCount(calls) = 1
    /\ lastJobsHash.kind = "json"
    /\ jobsView.kind = "jobs"
    /\ hasActiveJobs
    /\ ArmedPeriod = FastPeriod

\* C10: a loadJobs whose request is aborted by cleanup() calls nothing (no
\* notification, no console.error) and leaves lastJobsHash, the counters
\* and hasActiveJobs as they are.
SilentCancellation ==
    [][PollEnded("abort") =>
        /\ calls' = <<>>
        /\ UNCHANGED <<lastJobsHash, stats, hasActiveJobs>>]_vars

\* C10 witness: the AbortError of cleanup() has ended the invocation that
\* was in flight.
SilentCancellationWitness ==
    /\ signalAborted
    /\ lastPoll.kind = "abort"
    /\ calls = <<>>
    /\ Len(inflight) = 0
    /\ ~_isRefreshing

\* a loadJobs invocation that was suspended ends in this step
PollEnds == Len(inflight') < Len(inflight)

\* the method or helper name is among the calls cs
Called(name, cs) == \E k \in 1..Len(cs) : cs[k] = name

\* the state of the program, without the history variables
ProgramState ==
    <<refreshInterval, liveTimers, accordionRecalcTimeout, _cleanupTasks,
      lastJobsHash, hasActiveJobs, _isRefreshing, signalAborted, inflight,
      refreshBtnDisabled, stats, databaseCount, jobsView, dbStatsInflight,
      dbCollInflight, submitPending>>

\* C11: whatever the sequence of startPeriodicRefresh, stopPeriodicRefresh,
\* loadJobs completions and cleanup, at most one interval is live, a live
\* interval is the one refreshInterval refers to and refreshInterval refers
\* to a live interval or is null; after a call of startPeriodicRefresh
\* exactly one interval is live.
SingleTimer ==
    /\ Cardinality(liveTimers) <= 1
    /\ \A t \in liveTimers : t.id = refreshInterval
    /\ refreshInterval # NULL => \E t \in liveTimers : t.id = refreshInterval
    /\ calls = <<"startPeriodicRefresh">> => Cardinality(liveTimers) = 1

\* C11 witness: startPeriodicRefresh was called again (the constructor
\* called it first) after a poll had armed the fast interval.
SingleTimerWitness ==
    /\ calls = <<"startPeriodicRefresh">>
    /\ lastPoll.kind = "200"
    /\ hasActiveJobs
    /\ Cardinality(liveTimers) = 1
    /\ ArmedPeriod = FastPeriod

\* C12: a call of cleanup() after cleanup() has run, and a call of
\* stopPeriodicRefresh() that follows one or that finds no timer armed,
\* leave the state of the program as it is.
TeardownIdempotence ==
    [][/\ (signalAborted /\ Cleanup) => UNCHANGED ProgramState
       /\ (/\ \/ calls = <<"stopPeriodicRefresh">>
              \/ (refreshInterval = NULL /\ ~accordionRecalcTimeout)
           /\ StopPeriodicRefreshCall) => UNCHANGED ProgramState]_vars

\* C12 witness: cleanup() ran, the request it aborted ended, and cleanup()
\* ran again.
TeardownIdempotenceWitness ==
    /\ signalAborted
    /\ lastPoll.kind = "abort"
    /\ calls = <<"cleanup">>
    /\ Len(inflight) = 0

\* C13 (as claimed): in the state cleanup() leaves, the timer is cancelled,
\* the abort signal is raised, the task list is empty and lastJobsHash,
\* hasActiveJobs and _isRefreshing hold null, false and false.
DisposeResetsState ==
    calls = <<"cleanup">> =>
        /\ refreshInterval = NULL
        /\ liveTimers = {}
        /\ signalAborted
        /\ _cleanupTasks = 0
        /\ ~accordionRecalcTimeout
        /\ lastJobsHash = NullHash
        /\ hasActiveJobs = FALSE
        /\ _isRefreshing = FALSE

\* the arrays a and b differ, and only in the fractional part of a
\* progress_percent
DifferOnlyInFraction(a, b) ==
    /\ a # b
    /\ Len(a) = Len(b)
    /\ \A k \in 1..Len(a) : RoundedProjection(a[k]) = RoundedProjection(b[k])

CallCount(name, cs) == Cardinality({ k \in 1..Len(cs) : cs[k] = name })

\* C15 (as claimed): a loadJobs that receives a 200 array calls
\* loadDatabaseStats once if a job of the array is completed and not at all
\* otherwise; a 404, failed, aborted or skipped loadJobs does not call it.
CompletionSignal ==
    [][/\ PollEndedOn200 =>
            CallCount("loadDatabaseStats", calls') =
                (IF \E k \in 1..Len(lastPoll'.jobs) :
                        lastPoll'.jobs[k].status = "completed"
                 THEN 1 ELSE 0)
       /\ (PollEnds /\ ~PollEndedOn200) => ~Called("loadDatabaseStats", calls')
       /\ calls' = <<"skipped">> => dbStatsInflight' <= dbStatsInflight]_vars

\* C16 (as claimed): after a loadJobs that received a 200 array the array
\* has the elements, in the order, it had when the response was parsed.
NoMutationOfJobData ==
    [][PollEndedOn200 => lastPoll'.after = lastPoll'.jobs]_vars

\* C17 (as claimed): a poll that leaves hasActiveJobs unchanged does not
\* call optimizeRefreshInterval and leaves the timer untouched.
CadenceOnlyOnEdges ==
    [][(PollEnds /\ hasActiveJobs' = hasActiveJobs) =>
        /\ ~Called("optimizeRefreshInterval", calls')
        /\ UNCHANGED <<refreshInterval, liveTimers>>]_vars

\* C17 (amended): a poll calls optimizeRefreshInterval only if it ends on a
\* 200 response and changes hasActiveJobs, or ends on 404 with lastJobsHash
\* not 'empty'; a poll that does not call it leaves the timer untouched;
\* and a step that is no end of a poll changes the timer only as a call of
\* startPeriodicRefresh, stopPeriodicRefresh or cleanup.
CadenceEdges ==
    [][/\ (PollEnds /\ Called("optimizeRefreshInterval", calls')) =>
            \/ PollEnded("200") /\ hasActiveJobs' # hasActiveJobs
            \/ PollEnded("404") /\ lastJobsHash # EmptyHash
       /\ (PollEnds /\ ~Called("optimizeRefreshInterval", calls')) =>
            UNCHANGED <<refreshInterval, liveTimers>>
       /\ (~PollEnds /\ ~UNCHANGED <<refreshInterval, liveTimers>>) =>
            calls' \in {<<"startPeriodicRefresh">>, <<"stopPeriodicRefresh">>,
                        <<"cleanup">>}]_vars

\* C17 witness: a 404 poll found a fingerprint other than 'empty' and armed
\* the slow interval again.
CadenceEdgesWitness ==
    /\ lastPoll.kind = "404"
    /\ Called("optimizeRefreshInterval", calls)
    /\ ~hasActiveJobs
    /\ ArmedPeriod = SlowPeriod

\* C18: a loadJobs call made while _isRefreshing is true issues no fetch
\* and leaves lastJobsHash, hasActiveJobs, the counters, the timer,
\* _isRefreshing, the refresh button and the invocations in flight as they
\* are; and the step in which an invocation ends issues no fetch.
SkippedRefreshDropped ==
    [][/\ calls' = <<"skipped">> =>
            /\ _isRefreshing
            /\ UNCHANGED <<lastJobsHash, hasActiveJobs, stats, refreshInterval,
                           liveTimers, _isRefreshing, refreshBtnDisabled,
                           inflight, jobsView>>
       /\ PollEnds =>
            /\ ~Called("fetch", calls')
            /\ Len(inflight') = Len(inflight) - 1
            /\ RequestsInFlight' <= RequestsInFlight
            /\ ~_isRefreshing']_vars

\* C18 witness: a call was skipped while the body of the response was
\* being read.
SkippedRefreshDroppedWitness ==
    /\ calls = <<"skipped">>
    /\ _isRefreshing
    /\ refreshBtnDisabled
    /\ Len(inflight) = 1
    /\ inflight[1].phase = "json"

EmptyStatesAlike ==
    [][/\ (lastPoll.kind = "200" /\ lastPoll.jobs = <<>> /\ PollEnded("404")) =>
            /\ ~Called("renderEmptyState", calls')
            /\ ~Called("updateStats", calls')
            /\ ~Called("optimizeRefreshInterval", calls')
       /\ (lastPoll.kind = "404" /\ PollEnded("200") /\ lastPoll'.jobs = <<>>) =>
            /\ ~lastPoll'.rendered
            /\ ~Called("optimizeRefreshInterval", calls')]_vars

\* a refresh has failed (HTTP error, network failure, unparsable body or
\* render exception), nothing is in flight and cleanup() has not run
FailedPoll ==
    /\ ~signalAborted
    /\ Len(inflight) = 0
    /\ lastPoll.kind \in {"error", "parseError", "threw"}

\* C21: until cleanup() runs refreshInterval refers to a live interval in
\* every state, whatever the polls' outcomes; and, intervals firing and
\* requests settling, a failed poll is followed by another poll (or by
\* cleanup()).
PollingNeverStops ==
    /\ [](~signalAborted =>
            /\ refreshInterval # NULL
            /\ \E t \in liveTimers : t.id = refreshInterval)
    /\ (FailedPoll ~> (signalAborted \/ Len(inflight) > 0))

\* C21 witness: after a poll that ended in a render exception the interval
\* has fired and the next request is in flight.
PollingNeverStopsWitness ==
    /\ lastPoll.kind = "threw"
    /\ ~signalAborted
    /\ refreshInterval # NULL
    /\ calls = <<"fetch">>
    /\ RequestsInFlight = 1

\* C25 (as claimed): in every state in which no loadJobs invocation is
\* suspended and the timer is armed, its period is 1500 exactly when
\* hasActiveJobs is true and 10000 exactly when it is false, and
\* lastJobsHash = 'empty' implies hasActiveJobs = false.
CadenceAgreesWithFlag ==
    /\ (Len(inflight) = 0 /\ refreshInterval # NULL) =>
            /\ hasActiveJobs <=> ArmedPeriod = 1500
            /\ ~hasActiveJobs <=> ArmedPeriod = 10000
    /\ lastJobsHash = EmptyHash => ~hasActiveJobs

\* C27 (as claimed): once stopPeriodicRefresh() has been called from
\* outside, refreshInterval stays null in every step that is no call of
\* startPeriodicRefresh.
StopIsSticky ==
    [][(refreshInterval = NULL /\ ~signalAborted /\ refreshInterval' # NULL)
        => calls' = <<"startPeriodicRefresh">>]_vars

\* C28 (as claimed): a refresh that changes the content of the jobs list
\* leaves the accordion recalculation timeout armed, also when it goes on
\* to re-evaluate the cadence.
AccordionRecalculationKept ==
    [][(PollEnds /\ jobsView' # jobsView) => accordionRecalcTimeout']_vars

\* C29 (as claimed): _isRefreshing is true exactly when a loadJobs
\* invocation has passed the guard and has not run its finally block, and
\* there is at most one such invocation; also after cleanup().
GuardFlagAccurate ==
    /\ _isRefreshing <=> Len(inflight) > 0
    /\ Len(inflight) <= 1

\* C29 (amended): the same until cleanup() is called; cleanup() sets
\* _isRefreshing false although the invocation it aborts has not run its
\* finally block yet, and the flag is false in every state after it; at
\* most one invocation is suspended at any time.
GuardFlagAccurateUntilCleanup ==
    /\ ~signalAborted => (_isRefreshing <=> Len(inflight) > 0)
    /\ signalAborted => ~_isRefreshing
    /\ Len(inflight) <= 1

\* C29 witness: cleanup() has run while the body of a response was being
\* read: the flag is false and the aborted invocation has not ended.
GuardFlagAccurateWitness ==
    /\ signalAborted
    /\ ~_isRefreshing
    /\ Len(inflight) = 1
    /\ inflight[1].phase = "abortedJson"

\* C27 (amended): with refreshInterval null and cleanup() not called, the
\* only steps that arm the poll timer are a call of startPeriodicRefresh
\* and the end of a poll that re-evaluates the cadence: on a 200 response
\* that changes hasActiveJobs, or on 404 with lastJobsHash not 'empty';
\* every other step, a skipped or failed refresh included, leaves it null.
StopUntilCadenceReevaluated ==
    [][(refreshInterval = NULL /\ ~signalAborted /\ refreshInterval' # NULL) =>
        \/ calls' = <<"startPeriodicRefresh">>
        \/ PollEnded("200") /\ hasActiveJobs' # hasActiveJobs
        \/ PollEnded("404") /\ lastJobsHash # EmptyHash]_vars

\* C27 witness: stopPeriodicRefresh() was called while a status request
\* was in flight and the stored fingerprint was not 'empty'.
StopUntilCadenceReevaluatedWitness ==
    /\ calls = <<"stopPeriodicRefresh">>
    /\ refreshInterval = NULL
    /\ ~signalAborted
    /\ RequestsInFlight = 1
    /\ lastJobsHash # EmptyHash

\* the jobs of an array whose status is st
WithStatus(jobs, st) == { i \in 1..Len(jobs) : jobs[i].status = st }

HasUnknownStatus(jobs) ==
    \E i \in 1..Len(jobs) : ~KnownStatus(jobs[i].status) /\ jobs[i].job_id # NoId

\* C22 Unknown status tolerated: a 200 array in which a job has a status
\* other than running, queued, completed and failed is processed without
\* an exception: its fingerprint is stored, the counters are published
\* and count that job in none of the three, and hasActiveJobs is true
\* only if the array holds a running or queued job.
UnknownStatusTolerated ==
    [][(PollEndedOn200 /\ HasUnknownStatus(lastPoll'.jobs)) =>
        LET jobs == lastPoll'.jobs
        IN  /\ lastPoll'.kind = "200"
            /\ lastJobsHash' = JobsHash(jobs)
            /\ stats' = [completed |-> Cardinality(WithStatus(jobs, "completed")),
                         running |-> Cardinality(WithStatus(jobs, "running")),
                         queued |-> Cardinality(WithStatus(jobs, "queued"))]
            /\ stats'.completed + stats'.running + stats'.queued
                   = Cardinality({ i \in 1..Len(jobs) :
                                      jobs[i].status \in {"completed", "running", "queued"} })
            /\ hasActiveJobs' <=>
                   (WithStatus(jobs, "running") \cup WithStatus(jobs, "queued")) # {}
            /\ jobsView' = [kind |-> "jobs", jobs |-> jobs]]_vars

\* C22 witness: a poll that returned only a job of unknown status has
\* ended, with its fingerprint stored and all three counters at 0.
UnknownStatusToleratedWitness ==
    /\ lastPoll.kind = "200"
    /\ lastPoll.jobs = <<UnknownStatusJob>>
    /\ lastJobsHash = JobsHash(<<UnknownStatusJob>>)
    /\ stats = ZeroStats
    /\ ~hasActiveJobs
    /\ Len(inflight) = 0

\* C24 Fingerprint sufficient for the view: after every poll that ended
\* on a 200 response without an exception the job list shows the render
\* of the array that poll returned.
FingerprintSufficient ==
    [][PollEnded("200") => jobsView' = RenderedContent(lastPoll'.jobs)]_vars

\* C23 Mutual exclusion in the src/frontend/import.js variant: at most one
\* status request is in flight at any time, and no response is rendered
\* after the response of a loadJobs call issued later.
FrontendMutualExclusion ==
    /\ RequestsInFlight <= 1
    /\ ~(lastPoll.rendered /\ lastPoll.overtaken)

\* C26 View matches the stored fingerprint across clearCompletedJobs:
\* whenever lastJobsHash is the fingerprint of a non-empty job array, the
\* job list shows the render of that array.
ViewMatchesFingerprint ==
    \A jobs \in FewLists :
        lastJobsHash = JobsHash(jobs) => jobsView = RenderedContent(jobs)

\* C30 Shortcode selection stays within the loaded list: every shortcode
\* of selectedShortcodes is in the loaded list, and so is every shortcode
\* of an array posted for reimport.
SelectionWithinList ==
    /\ selectedShortcodes \subseteq shortcodes
    /\ \A k \in 1..Len(reimportInflight) : reimportInflight[k] \subseteq shortcodes

====
